---- MODULE Spec2Model ----
(***************************************************************************)
(* Model of src/main.py: the outreach run _run_automation (login, keyword  *)
(* search, result extraction, per-profile messaging, result aggregation).  *)
(* Strings are sequences of one-character strings; the two template        *)
(* placeholders "{nome}" and "{cargo}" are single symbols of a template.   *)
(* Delays are in tenths of a second.                                       *)
(***************************************************************************)
EXTENDS Integers, Sequences, FiniteSets, TLC

\* ------------------------------------------------------------------ bounds
\* largest max_messages of a request
MaxMessages == 2
\* largest number of keywords of a request
MaxKeywords == 2
\* largest number of result containers all listings of one run return
MaxResults == 2
\* largest delay_max of a request, in seconds
MaxDelay == 1
\* random.random() is drawn from {0/RandSteps, ..., RandSteps/RandSteps}
RandSteps == 1

\* ------------------------------------------------------- string functions
\* characters str.strip() and str.split() treat as whitespace
Whitespace == {" ", "\n", "\t"}

RECURSIVE LStrip(_)
LStrip(s) ==
    IF s = <<>> THEN s
    ELSE IF Head(s) \in Whitespace THEN LStrip(Tail(s)) ELSE s

RECURSIVE RStrip(_)
RStrip(s) ==
    IF s = <<>> THEN s
    ELSE IF s[Len(s)] \in Whitespace THEN RStrip(SubSeq(s, 1, Len(s) - 1)) ELSE s

\* str.strip()
Strip(s) == RStrip(LStrip(s))

\* s.split(ch)[0]: the part of s before the first ch (all of s without ch)
RECURSIVE SplitFirst(_, _)
SplitFirst(s, ch) ==
    IF s = <<>> THEN <<>>
    ELSE IF Head(s) = ch THEN <<>>
    ELSE <<Head(s)>> \o SplitFirst(Tail(s), ch)

\* sub in s
Contains(s, sub) ==
    \E i \in 1..(Len(s) - Len(sub) + 1) : SubSeq(s, i, i + Len(sub) - 1) = sub

\* the leading run of non-whitespace characters of s
RECURSIVE TakeWord(_)
TakeWord(s) ==
    IF s = <<>> THEN <<>>
    ELSE IF Head(s) \in Whitespace THEN <<>>
    ELSE <<Head(s)>> \o TakeWord(Tail(s))

\* s.split(): the whitespace-delimited tokens of s, in order
RECURSIVE SplitWords(_)
SplitWords(s) ==
    LET t == LStrip(s)
        w == TakeWord(t)
    IN  IF t = <<>> THEN <<>>
        ELSE <<w>> \o SplitWords(SubSeq(t, Len(w) + 1, Len(t)))

\* s.replace(old, new) for a one-symbol old
RECURSIVE Replace(_, _, _)
Replace(s, old, new) ==
    IF s = <<>> THEN <<>>
    ELSE (IF Head(s) = old THEN new ELSE <<Head(s)>>) \o Replace(Tail(s), old, new)

\* ---------------------------------------------------------- _build_message
\* the fallback literal of `title or "profissional"`
Profissional == <<"p", "r", "o", "f", "i", "s", "s", "i", "o", "n", "a", "l">>

\* name.split()[0] raises IndexError when name has no token
BuildMessageRaises(name) == SplitWords(name) = <<>>

\* _build_message(template, name, title), for a name with a token
BuildMessage(template, name, title) ==
    LET first_name == SplitWords(name)[1]
    IN  Replace(Replace(template, "{nome}", first_name),
                "{cargo}", IF title = <<>> THEN Profissional ELSE title)

\* str(e) of the IndexError of name.split()[0], and of a driver failure
IndexErrorText == "list index out of range"
DriverErrorText == "driver error"

\* ------------------------------------------------------ search extraction
\* "/in/" in href
InSegment == <<"/", "i", "n", "/">>

\* one pass of the body of `for handle in handles`: the profiles it appends
ExtractOne(h) ==
    IF h.raises THEN <<>>
    ELSE IF ~h.name_el \/ ~h.link_el THEN <<>>
    ELSE LET name  == Strip(SplitFirst(Strip(h.raw_name), "\n"))
             title == IF h.title_el THEN Strip(h.raw_title) ELSE <<>>
         IN  IF h.has_href /\ Contains(h.href, InSegment)
             THEN << [name |-> name, title |-> title, url |-> SplitFirst(h.href, "?")] >>
             ELSE <<>>

\* the list `profiles` after the extraction loop over handles
RECURSIVE ExtractProfiles(_)
ExtractProfiles(handles) ==
    IF handles = <<>> THEN <<>>
    ELSE ExtractOne(Head(handles)) \o ExtractProfiles(Tail(handles))

\* result containers the page driver may return for a listing
Entry(ne, te, le, rn, rt, hh, hr, ex) ==
    [name_el |-> ne, title_el |-> te, link_el |-> le, raw_name |-> rn,
     raw_title |-> rt, has_href |-> hh, href |-> hr, raises |-> ex]

ResultEntries ==
    { Entry(TRUE, TRUE, TRUE, <<" ", "A", "n", " ", "B", "\n", "x">>, <<"P", "M", " ">>,
            TRUE, <<"/", "i", "n", "/", "a", "?", "t">>, FALSE),
      Entry(TRUE, FALSE, TRUE, <<"B", "o">>, <<>>,
            TRUE, <<"/", "i", "n", "/", "b">>, FALSE),
      Entry(TRUE, TRUE, TRUE, <<" ", "\n">>, <<"Q">>,
            TRUE, <<"/", "i", "n", "/", "a">>, FALSE),
      Entry(FALSE, TRUE, TRUE, <<>>, <<"Q">>,
            TRUE, <<"/", "i", "n", "/", "c">>, FALSE),
      Entry(TRUE, TRUE, TRUE, <<"C", "o">>, <<"Q">>,
            TRUE, <<"/", "c", "o", "/", "c">>, FALSE),
      Entry(TRUE, TRUE, TRUE, <<"D">>, <<"Q">>,
            FALSE, <<>>, FALSE),
      Entry(TRUE, TRUE, TRUE, <<"E">>, <<"Q">>,
            TRUE, <<"/", "i", "n", "/", "e">>, TRUE) }

\* the listings page.query_selector_all may return, of at most n containers
Listings(n) == UNION { [1..m -> ResultEntries] : m \in 0..n }

\* ------------------------------------------------------------ the request
\* a keyword of i characters
Keyword(i) == [j \in 1..i |-> "k"]

\* message_template: text with the two placeholders
Templates == { <<"O", "l", "a", " ", "{nome}", ",", " ", "{cargo}", "?">> }

\* RunRequest
AllRunRequests ==
    [ keywords         : { [i \in 1..n |-> Keyword(i)] : n \in 0..MaxKeywords },
      max_messages     : 1..MaxMessages,
      delay_min        : 0..MaxDelay,
      delay_max        : 0..MaxDelay,
      dry_run          : BOOLEAN,
      message_template : Templates ]

\* the requests a run is started with: at least one keyword, and delay_min one
\* second less than delay_max
RunRequests ==
    { c \in AllRunRequests : /\ c.keywords # <<>>
                             /\ c.delay_max = MaxDelay
                             /\ c.delay_min = c.delay_max - 1 }

\* ------------------------------------------------------------- the driver
\* page.url values the login submission may land on
LoginUrl == <<"/", "l", "o", "g", "i", "n">>
PageUrls ==
    { <<"/", "f", "e", "e", "d", "/">>,
      <<"/", "m", "y", "n", "e", "t", "w", "o", "r", "k", "/">>,
      <<"/", "c", "h", "e", "c", "k", "p", "o", "i", "n", "t">>,
      LoginUrl }

\* variant: `"feed" or "mynetwork" in page.url`, which is always truthy
LoggedInTruthy(url) == TRUE

\* logged_in = "feed" in page.url or "mynetwork" in page.url
LoggedIn(url) ==
    \/ Contains(url, <<"f", "e", "e", "d">>)
    \/ Contains(url, <<"m", "y", "n", "e", "t", "w", "o", "r", "k">>)

LoginFailedText == "Login falhou. Verifique credenciais ou CAPTCHA."

\* number of entries of btn_selectors
NumBtnSelectors == 3

\* what one page.query_selector call may do
QueryAnswers == {"none", "elem", "raise"}

\* variant: the loop over btn_selectors without its `break`, which leaves in
\* msg_btn the answer of the last selector
QueryInOrderNoBreak(answers, i) ==
    [msg_btn |-> IF answers[Len(answers)] = "elem" THEN Len(answers) ELSE 0,
     raised  |-> \E j \in i..Len(answers) : answers[j] = "raise",
     queried |-> Len(answers)]

\* the loop over btn_selectors from selector i on: msg_btn is the index of the
\* first selector that resolved (0 for None), raised when a query failed first
RECURSIVE QueryInOrder(_, _)
QueryInOrder(answers, i) ==
    IF i > Len(answers) THEN [msg_btn |-> 0, raised |-> FALSE, queried |-> i - 1]
    ELSE IF answers[i] = "raise" THEN [msg_btn |-> 0, raised |-> TRUE, queried |-> i]
    ELSE IF answers[i] = "elem" THEN [msg_btn |-> i, raised |-> FALSE, queried |-> i]
    ELSE QueryInOrder(answers, i + 1)

\* what a page answers to each of n selectors, were it queried
PageAnswers(n) == [1..n -> QueryAnswers]

\* variant: the second selector queried whatever the first one found
QueryWithFallbackAlways(answers) ==
    [found   |-> IF answers[2] = "elem" THEN 2 ELSE IF answers[1] = "elem" THEN 1 ELSE 0,
     raised  |-> answers[1] = "raise" \/ answers[2] = "raise",
     queried |-> 2]

\* variant: the two selectors in the other order
QueryWithFallbackSwapped(answers) ==
    [found   |-> IF answers[2] = "elem" THEN 2
                 ELSE IF answers[2] = "none" /\ answers[1] = "elem" THEN 1 ELSE 0,
     raised  |-> answers[2] = "raise" \/ (answers[2] = "none" /\ answers[1] = "raise"),
     queried |-> IF answers[2] = "none" THEN 2 ELSE 1]

\* x = query(first); if not x: x = query(second)  (lines 191-193, 202-204):
\* found is the selector whose element x is (0 for None)
QueryWithFallback(answers) ==
    [found   |-> IF answers[1] = "elem" THEN 1
                 ELSE IF answers[1] = "none" /\ answers[2] = "elem" THEN 2 ELSE 0,
     raised  |-> answers[1] = "raise" \/ (answers[1] = "none" /\ answers[2] = "raise"),
     queried |-> IF answers[1] = "none" THEN 2 ELSE 1]

\* variant: random.uniform(0, hi), the lower bound left out
UniformFromZero(lo, hi) == { (hi * k) \div RandSteps : k \in 0..RandSteps }

\* random.uniform(lo, hi) = lo + (hi - lo) * random.random(), in tenths of a second
Uniform(lo, hi) == { lo + ((hi - lo) * k) \div RandSteps : k \in 0..RandSteps }

\* ------------------------------------------------------------------ state
VARIABLES
    cfg,              \* the RunRequest
    pc,               \* position of the run in _run_automation
    results,          \* results: sent, would_send, skipped, errors, totalSent
    browser,          \* "none", "open" or "closed" (browser.close() performed)
    page_url,         \* page.url as read by the login check
    logged_in,        \* the local logged_in (FALSE before the check assigns it)
    kwi,              \* index of the keyword of the keyword loop
    profiles,         \* the list profiles of the current keyword
    pidx,             \* index of the profile of the profile loop
    msg_btn,          \* index of the selector whose element is msg_btn, 0 for None
    message_preview,  \* the built message, <<>> before it is built
    msg_box,          \* "none", "primary" or "fallback"
    send_btn,         \* "none", "dedicated" or "generic"
    failure,          \* text of the exception the run raised, "" for none
    response,         \* the RunResponse returned, NoResponse before
    last,             \* the driver operation or delay the last step performed
    count,            \* history: containers returned, profiles entered, navigations
    seenUrls,         \* history: urls extracted so far in the run
    urlRepeated,      \* history: some url was extracted more than once
    extracted,        \* history: the profiles appended by lines 143-144, in order
    navigated,        \* history: the profiles page.goto was called for, in order
    sends             \* history: send actions issued for the current profile,
                      \*          and send actions completed in the run

vars == << cfg, pc, results, browser, page_url, logged_in, kwi, profiles, pidx,
           msg_btn, message_preview, msg_box, send_btn, failure, response,
           last, count, seenUrls, urlRepeated, extracted, navigated, sends >>

locals == << msg_btn, message_preview, msg_box, send_btn >>
history == << seenUrls, urlRepeated, extracted >>

EmptyResults ==
    [sent |-> <<>>, would_send |-> <<>>, skipped |-> <<>>, errors |-> <<>>, totalSent |-> 0]

NoResponse == [success |-> FALSE]

\* values of the variable last
\* (answers: what the page holds for the selectors of a query step; queried:
\* how many of them the step queried)
Op(name, ok) ==
    [kind |-> "op", name |-> name, ok |-> ok, lo |-> 0, hi |-> 0, val |-> 0,
     answers |-> <<>>, queried |-> 0]
Queried(ok, answers, queried) ==
    [kind |-> "op", name |-> "query_selector", ok |-> ok, lo |-> 0, hi |-> 0, val |-> 0,
     answers |-> answers, queried |-> queried]
Slept(name, lo, hi, v) ==
    [kind |-> "delay", name |-> name, ok |-> TRUE, lo |-> lo, hi |-> hi, val |-> v,
     answers |-> <<>>, queried |-> 0]
NoOp ==
    [kind |-> "none", name |-> "", ok |-> TRUE, lo |-> 0, hi |-> 0, val |-> 0,
     answers |-> <<>>, queried |-> 0]

\* the profile of the current iteration
profile == profiles[pidx]

\* ---------------------------------------------------- result aggregation
\* variant: the quota test with > for >=
QuotaReachedLate(res, c) == res.totalSent > c.max_messages

\* results["totalSent"] >= cfg.max_messages
QuotaReached(res, c) == res.totalSent >= c.max_messages

NotConnectionReason == "Botao mensagem nao encontrado (nao e conexao)"
NoTextFieldReason == "Campo de texto nao encontrado"

\* variant: a skip that also counts the profile toward the quota
RecordSkippedCounted(res, p, reason) ==
    [res EXCEPT !.skipped = Append(@, [name |-> p.name, title |-> p.title,
                                       url |-> p.url, reason |-> reason]),
                !.totalSent = @ + 1]

\* variant: the skip without its `continue`, so that the profile also fails
\* further down and is recorded by the except clause
RecordSkippedThenError(res, p, reason) ==
    [res EXCEPT !.skipped = Append(@, [name |-> p.name, title |-> p.title,
                                       url |-> p.url, reason |-> reason]),
                !.errors = Append(@, [name |-> p.name, title |-> p.title,
                                      url |-> p.url, error |-> DriverErrorText])]

\* results["skipped"].append({**profile, "reason": reason})
RecordSkipped(res, p, reason) ==
    [res EXCEPT !.skipped = Append(@, [name |-> p.name, title |-> p.title,
                                       url |-> p.url, reason |-> reason])]

\* variant: an except clause that swallows the failure
RecordErrorDropped(res, p, text) == res

\* variant: an except clause that also counts the profile toward the quota
RecordErrorCounted(res, p, text) ==
    [res EXCEPT !.errors = Append(@, [name |-> p.name, title |-> p.title,
                                      url |-> p.url, error |-> text]),
                !.totalSent = @ + 1]

\* except Exception as e: results["errors"].append({**profile, "error": str(e)})
RecordError(res, p, text) ==
    [res EXCEPT !.errors = Append(@, [name |-> p.name, title |-> p.title,
                                      url |-> p.url, error |-> text])]

\* variant: the dry-run record put at the head of would_send
RecordWouldSendFirst(res, p, msg) ==
    [res EXCEPT !.would_send = << [name |-> p.name, title |-> p.title,
                                   url |-> p.url, message_preview |-> msg] >> \o @,
                !.totalSent = @ + 1]

\* variant: the dry-run record appended to the list of real sends
RecordWouldSendAsSent(res, p, msg) ==
    [res EXCEPT !.sent = Append(@, [name |-> p.name, title |-> p.title,
                                    url |-> p.url, message_preview |-> msg]),
                !.totalSent = @ + 1]

\* results["would_send"].append({...}); results["totalSent"] += 1
RecordWouldSend(res, p, msg) ==
    [res EXCEPT !.would_send = Append(@, [name |-> p.name, title |-> p.title,
                                          url |-> p.url, message_preview |-> msg]),
                !.totalSent = @ + 1]

\* variant: the send counted but the profile not appended to sent
RecordSentCountOnly(res, p) ==
    [res EXCEPT !.totalSent = @ + 1]

\* results["sent"].append(profile); results["totalSent"] += 1
RecordSent(res, p) ==
    [res EXCEPT !.sent = Append(@, p), !.totalSent = @ + 1]

\* variant: the dry-run test left out
IsDryRunIgnored(c) == FALSE

\* if cfg.dry_run:
IsDryRun(c) == c.dry_run

\* ------------------------------------------------------------------- Init
Init ==
    /\ cfg \in RunRequests
    /\ pc = "start"
    /\ results = EmptyResults
    /\ browser = "none"
    /\ page_url = <<>>
    /\ logged_in = FALSE
    /\ kwi = 1
    /\ profiles = <<>>
    /\ pidx = 1
    /\ msg_btn = 0
    /\ message_preview = <<>>
    /\ msg_box = "none"
    /\ send_btn = "none"
    /\ failure = ""
    /\ response = NoResponse
    /\ last = NoOp
    /\ count = [results |-> 0, entered |-> 0, search_nav |-> 0, profile_nav |-> 0]
    /\ seenUrls = {}
    /\ urlRepeated = FALSE
    /\ extracted = <<>>
    /\ navigated = <<>>
    /\ sends = [issued |-> 0, ok |-> 0]

\* ---------------------------------------------------------- step patterns
\* an exception leaves _run_automation (no handler encloses the statement)
Raise(text) ==
    /\ pc' = "raised"
    /\ failure' = text

\* a driver operation outside the per-profile try: it succeeds or raises
Unguarded(from, to, name) ==
    /\ pc = from
    /\ \E ok \in BOOLEAN :
        /\ last' = Op(name, ok)
        /\ IF ok THEN pc' = to /\ UNCHANGED failure ELSE Raise(DriverErrorText)

\* The locals msg_btn, message_preview, msg_box and send_btn are kept from their
\* assignment to their last read in the iteration (lines 188, 199, 209 and 207);
\* a step after which a local is not read again before it is reassigned leaves
\* its initial value in the model.
Forget ==
    /\ msg_btn' = 0
    /\ message_preview' = <<>>
    /\ msg_box' = "none"
    /\ send_btn' = "none"

\* leaving the iteration of the profile loop: on to the next profile
NextProfile ==
    /\ pidx' = pidx + 1
    /\ pc' = "profile_check"
    /\ Forget

\* the except clause of the per-profile try, then on to line 218
Except(text) ==
    /\ results' = RecordError(results, profile, text)
    /\ pc' = "trailing_delay"
    /\ Forget

\* a driver operation inside the per-profile try: it succeeds or is caught
Guarded(from, to, name, keep) ==
    /\ pc = from
    /\ \E ok \in BOOLEAN :
        /\ last' = Op(name, ok)
        /\ IF ok THEN pc' = to /\ UNCHANGED results ELSE Except(DriverErrorText)
        /\ ok => keep

\* await _random_delay(lo, hi)
RandomDelay(from, to, name, lo, hi) ==
    /\ pc = from
    /\ \E v \in Uniform(lo, hi) : last' = Slept(name, lo, hi, v)
    /\ pc' = to

\* ------------------------------------------------------------------ login
Launch ==
    /\ pc = "start"
    /\ \E ok \in BOOLEAN :
        /\ last' = Op("launch", ok)
        /\ IF ok THEN pc' = "login_goto" /\ browser' = "open" /\ UNCHANGED failure
                 ELSE Raise(DriverErrorText) /\ UNCHANGED browser
    /\ UNCHANGED << cfg, results, page_url, logged_in, kwi, profiles, pidx,
                    locals, response, count, history, sends, navigated >>

LoginGoto ==
    /\ Unguarded("login_goto", "login_fill_user", "goto_login")
    /\ page_url' = IF last'.ok THEN LoginUrl ELSE page_url
    /\ UNCHANGED << cfg, results, browser, logged_in, kwi, profiles, pidx,
                    locals, response, count, history, sends, navigated >>

LoginFillUser ==
    /\ Unguarded("login_fill_user", "login_fill_pass", "login_fill")
    /\ UNCHANGED << cfg, results, browser, page_url, logged_in, kwi, profiles, pidx,
                    locals, response, count, history, sends, navigated >>

LoginFillPass ==
    /\ Unguarded("login_fill_pass", "login_submit", "login_fill")
    /\ UNCHANGED << cfg, results, browser, page_url, logged_in, kwi, profiles, pidx,
                    locals, response, count, history, sends, navigated >>

LoginSubmit ==
    /\ Unguarded("login_submit", "login_settle", "login_click")
    /\ UNCHANGED << cfg, results, browser, page_url, logged_in, kwi, profiles, pidx,
                    locals, response, count, history, sends, navigated >>

\* wait_for_load_state after the submission: the page has landed somewhere
LoginSettle ==
    /\ Unguarded("login_settle", "login_delay", "settle")
    /\ IF last'.ok THEN page_url' \in PageUrls ELSE UNCHANGED page_url
    /\ UNCHANGED << cfg, results, browser, logged_in, kwi, profiles, pidx,
                    locals, response, count, history, sends, navigated >>

LoginDelay ==
    /\ RandomDelay("login_delay", "login_check", "login", 20, 40)
    /\ UNCHANGED << cfg, results, browser, page_url, logged_in, kwi, profiles, pidx,
                    locals, failure, response, count, history, sends, navigated >>

\* lines 108-111: on a failed login the browser is closed and the run raises
LoginCheck ==
    /\ pc = "login_check"
    /\ logged_in' = LoggedIn(page_url)
    /\ IF logged_in'
       THEN /\ pc' = "keyword_check"
            /\ last' = NoOp
            /\ UNCHANGED << browser, failure >>
       ELSE \E ok \in BOOLEAN :
            /\ last' = Op("close", ok)
            /\ browser' = IF ok THEN "closed" ELSE browser
            /\ Raise(IF ok THEN LoginFailedText ELSE DriverErrorText)
    /\ UNCHANGED << cfg, results, page_url, kwi, profiles, pidx,
                    locals, response, count, history, sends, navigated >>

\* ----------------------------------------------------------- keyword loop
\* for keyword in cfg.keywords: if results["totalSent"] >= cfg.max_messages: break
KeywordCheck ==
    /\ pc = "keyword_check"
    /\ IF kwi > Len(cfg.keywords) \/ QuotaReached(results, cfg)
       THEN pc' = "close"
       ELSE pc' = "search_goto"
    /\ last' = NoOp
    /\ UNCHANGED << cfg, results, browser, page_url, logged_in, kwi, profiles, pidx,
                    locals, failure, response, count, history, sends, navigated >>

SearchGoto ==
    /\ Unguarded("search_goto", "search_settle", "goto_search")
    /\ count' = [count EXCEPT !.search_nav = @ + 1]
    /\ UNCHANGED << cfg, results, browser, page_url, logged_in, kwi, profiles, pidx,
                    locals, response, history, sends, navigated >>

SearchSettle ==
    /\ Unguarded("search_settle", "search_delay", "settle")
    /\ UNCHANGED << cfg, results, browser, page_url, logged_in, kwi, profiles, pidx,
                    locals, response, count, history, sends, navigated >>

SearchDelay ==
    /\ RandomDelay("search_delay", "extract", "search", 20, 30)
    /\ UNCHANGED << cfg, results, browser, page_url, logged_in, kwi, profiles, pidx,
                    locals, failure, response, count, history, sends, navigated >>

\* the urls of a list of profiles
Urls(ps) == { ps[i].url : i \in DOMAIN ps }

\* lines 127-146: query the listing and extract the profiles of its entries
Extract ==
    /\ pc = "extract"
    /\ \E ok \in BOOLEAN :
        /\ last' = Op("query_selector_all", ok)
        /\ IF ok
           THEN \E handles \in Listings(MaxResults - count.results) :
                /\ profiles' = ExtractProfiles(handles)
                /\ count' = [count EXCEPT !.results = @ + Len(handles)]
                /\ pidx' = 1
                /\ pc' = "profile_check"
                /\ seenUrls' = seenUrls \cup Urls(profiles')
                /\ urlRepeated' =
                      \/ urlRepeated
                      \/ Urls(profiles') \cap seenUrls # {}
                      \/ Cardinality(Urls(profiles')) < Len(profiles')
                /\ extracted' = extracted \o profiles'
                /\ UNCHANGED failure
           ELSE /\ Raise(DriverErrorText)
                /\ UNCHANGED << profiles, pidx, count, history >>
    /\ UNCHANGED << cfg, results, browser, page_url, logged_in, kwi,
                    locals, response, sends, navigated >>

\* ----------------------------------------------------------- profile loop
\* for profile in profiles: if results["totalSent"] >= cfg.max_messages: break
\* (the loop ends, by exhaustion or break, into the next keyword)
ProfileCheck ==
    /\ pc = "profile_check"
    /\ IF pidx > Len(profiles) \/ QuotaReached(results, cfg)
       THEN /\ kwi' = kwi + 1
            /\ pc' = "keyword_check"
            /\ UNCHANGED count
       ELSE /\ pc' = "pre_delay"
            /\ count' = [count EXCEPT !.entered = @ + 1]
            /\ UNCHANGED kwi
    /\ last' = NoOp
    /\ UNCHANGED << cfg, results, browser, page_url, logged_in, profiles, pidx,
                    locals, failure, response, history, sends, navigated >>

\* line 153
PreDelay ==
    /\ RandomDelay("pre_delay", "profile_goto", "inter_action",
                   cfg.delay_min * 10, cfg.delay_max * 10)
    /\ UNCHANGED << cfg, results, browser, page_url, logged_in, kwi, profiles, pidx,
                    locals, failure, response, count, history, sends, navigated >>

\* line 156
ProfileGoto ==
    /\ Guarded("profile_goto", "profile_settle", "goto_profile", UNCHANGED locals)
    /\ count' = [count EXCEPT !.profile_nav = @ + 1]
    /\ navigated' = Append(navigated, profile)
    /\ UNCHANGED << cfg, browser, page_url, logged_in, kwi, profiles, pidx,
                    failure, response, history, sends >>

\* line 157
ProfileSettle ==
    /\ Guarded("profile_settle", "profile_delay", "settle", UNCHANGED locals)
    /\ UNCHANGED << cfg, browser, page_url, logged_in, kwi, profiles, pidx,
                    failure, response, count, history, sends, navigated >>

\* line 158
ProfileDelay ==
    /\ RandomDelay("profile_delay", "locate_button", "navigated", 20, 30)
    /\ UNCHANGED << cfg, results, browser, page_url, logged_in, kwi, profiles, pidx,
                    locals, failure, response, count, history, sends, navigated >>

\* lines 160-173: the selectors are queried in order; without a button the
\* profile is skipped and `continue` starts the next iteration
LocateButton ==
    /\ pc = "locate_button"
    /\ \E answers \in PageAnswers(NumBtnSelectors) :
        LET r == QueryInOrder(answers, 1)
        IN  /\ last' = Queried(~r.raised, answers, r.queried)
            /\ IF r.raised
               THEN Except(DriverErrorText) /\ UNCHANGED pidx
               ELSE IF r.msg_btn = 0
               THEN /\ results' = RecordSkipped(results, profile, NotConnectionReason)
                    /\ NextProfile
               ELSE /\ msg_btn' = r.msg_btn
                    /\ pc' = "compose"
                    /\ UNCHANGED << results, pidx, message_preview, msg_box, send_btn >>
    /\ UNCHANGED << cfg, browser, page_url, logged_in, kwi, profiles,
                    failure, response, count, history, sends, navigated >>

\* lines 175-186: build the message; in a dry run record it and `continue`
Compose ==
    /\ pc = "compose"
    /\ last' = NoOp
    /\ IF BuildMessageRaises(profile.name)
       THEN Except(IndexErrorText) /\ UNCHANGED pidx
       ELSE LET msg == BuildMessage(cfg.message_template, profile.name, profile.title)
            IN  IF IsDryRun(cfg)
                THEN /\ results' = RecordWouldSend(results, profile, msg)
                     /\ NextProfile
                ELSE /\ message_preview' = msg
                     /\ pc' = "click_button"
                     /\ UNCHANGED << results, pidx, msg_btn, msg_box, send_btn >>
    /\ UNCHANGED << cfg, browser, page_url, logged_in, kwi, profiles,
                    failure, response, count, history, sends, navigated >>

\* line 188
ClickButton ==
    /\ Guarded("click_button", "compose_delay", "click_msg_btn",
               msg_btn' = 0 /\ UNCHANGED << message_preview, msg_box, send_btn >>)
    /\ UNCHANGED << cfg, browser, page_url, logged_in, kwi, profiles, pidx,
                    failure, response, count, history, sends, navigated >>

\* line 189
ComposeDelay ==
    /\ RandomDelay("compose_delay", "find_box", "clicked", 10, 20)
    /\ UNCHANGED << cfg, results, browser, page_url, logged_in, kwi, profiles, pidx,
                    locals, failure, response, count, history, sends, navigated >>

\* lines 191-196: the rich-text field, else the generic textbox, else skipped
FindBox ==
    /\ pc = "find_box"
    /\ \E answers \in PageAnswers(2) :
        LET r   == QueryWithFallback(answers)
            box == IF r.found = 1 THEN "primary"
                   ELSE IF r.found = 2 THEN "fallback" ELSE "none"
        IN  /\ last' = Queried(~r.raised, answers, r.queried)
            /\ IF r.raised
               THEN Except(DriverErrorText) /\ UNCHANGED pidx
               ELSE IF box = "none"
               THEN /\ results' = RecordSkipped(results, profile, NoTextFieldReason)
                    /\ NextProfile
               ELSE /\ msg_box' = box
                    /\ pc' = "click_box"
                    /\ UNCHANGED << results, pidx, msg_btn, message_preview, send_btn >>
    /\ UNCHANGED << cfg, browser, page_url, logged_in, kwi, profiles,
                    failure, response, count, history, sends, navigated >>

\* line 198
ClickBox ==
    /\ Guarded("click_box", "fill_box", "click_msg_box", UNCHANGED locals)
    /\ UNCHANGED << cfg, browser, page_url, logged_in, kwi, profiles, pidx,
                    failure, response, count, history, sends, navigated >>

\* line 199
FillBox ==
    /\ Guarded("fill_box", "fill_delay", "fill_msg_box",
               message_preview' = <<>> /\ UNCHANGED << msg_btn, msg_box, send_btn >>)
    /\ UNCHANGED << cfg, browser, page_url, logged_in, kwi, profiles, pidx,
                    failure, response, count, history, sends, navigated >>

\* line 200
FillDelay ==
    /\ RandomDelay("fill_delay", "find_send", "filled", 8, 15)
    /\ UNCHANGED << cfg, results, browser, page_url, logged_in, kwi, profiles, pidx,
                    locals, failure, response, count, history, sends, navigated >>

\* lines 202-204: the dedicated send button, else the generic submit button
FindSend ==
    /\ pc = "find_send"
    /\ \E answers \in PageAnswers(2) :
        LET r   == QueryWithFallback(answers)
            btn == IF r.found = 1 THEN "dedicated"
                   ELSE IF r.found = 2 THEN "generic" ELSE "none"
        IN  /\ last' = Queried(~r.raised, answers, r.queried)
            /\ IF r.raised
               THEN Except(DriverErrorText)
               ELSE /\ send_btn' = btn
                    /\ pc' = "send"
                    /\ UNCHANGED << results, msg_btn, message_preview, msg_box >>
    /\ UNCHANGED << cfg, browser, page_url, logged_in, kwi, profiles, pidx,
                    failure, response, count, history, sends, navigated >>

\* lines 206-209: click the send control, or press Control+Enter in the box
Send ==
    /\ Guarded("send", "send_delay",
               IF send_btn # "none" THEN "click_send_btn" ELSE "press_control_enter",
               Forget)
    /\ sends' = [issued |-> sends.issued + 1,
                 ok     |-> sends.ok + (IF last'.ok THEN 1 ELSE 0)]
    /\ UNCHANGED << cfg, browser, page_url, logged_in, kwi, profiles, pidx,
                    failure, response, count, history, navigated >>

\* line 211
SendDelay ==
    /\ RandomDelay("send_delay", "record_sent", "sent", 10, 20)
    /\ UNCHANGED << cfg, results, browser, page_url, logged_in, kwi, profiles, pidx,
                    locals, failure, response, count, history, sends, navigated >>

\* lines 212-213
AppendSent ==
    /\ pc = "record_sent"
    /\ results' = RecordSent(results, profile)
    /\ pc' = "trailing_delay"
    /\ last' = NoOp
    /\ UNCHANGED << cfg, browser, page_url, logged_in, kwi, profiles, pidx,
                    locals, failure, response, count, history, sends, navigated >>

\* line 218, reached after line 213 and after the except clause
TrailingDelay ==
    /\ pc = "trailing_delay"
    /\ \E v \in Uniform((cfg.delay_min + 2) * 10, (cfg.delay_max + 3) * 10) :
        last' = Slept("inter_profile", (cfg.delay_min + 2) * 10, (cfg.delay_max + 3) * 10, v)
    /\ NextProfile
    /\ UNCHANGED << cfg, results, browser, page_url, logged_in, kwi, profiles,
                    failure, response, count, history, navigated >>
    /\ sends' = [sends EXCEPT !.issued = 0]

\* ------------------------------------------------------------ end of run
\* line 220
Close ==
    /\ Unguarded("close", "return", "close")
    /\ browser' = IF last'.ok THEN "closed" ELSE browser
    /\ UNCHANGED << cfg, results, page_url, logged_in, kwi, profiles, pidx,
                    locals, response, count, history, sends, navigated >>

\* the mode label of the summary
ModeLabel(c) == IF c.dry_run THEN "dry_run (simulacao)" ELSE "real (mensagens enviadas)"

\* variant: the two list counters of the summary exchanged
RunResponseSwapped(c, res) ==
    [ success    |-> TRUE,
      dry_run    |-> c.dry_run,
      summary    |-> [ mode         |-> ModeLabel(c),
                       totalSent    |-> res.totalSent,
                       totalSkipped |-> Len(res.errors),
                       totalErrors  |-> Len(res.skipped) ],
      would_send |-> res.would_send,
      sent       |-> res.sent,
      skipped    |-> res.skipped,
      errors     |-> res.errors ]

\* lines 222-235
RunResponse(c, res) ==
    [ success    |-> TRUE,
      dry_run    |-> c.dry_run,
      summary    |-> [ mode         |-> ModeLabel(c),
                       totalSent    |-> res.totalSent,
                       totalSkipped |-> Len(res.skipped),
                       totalErrors  |-> Len(res.errors) ],
      would_send |-> res.would_send,
      sent       |-> res.sent,
      skipped    |-> res.skipped,
      errors     |-> res.errors ]

Return ==
    /\ pc = "return"
    /\ response' = RunResponse(cfg, results)
    /\ pc' = "returned"
    /\ last' = NoOp
    /\ UNCHANGED << cfg, results, browser, page_url, logged_in, kwi, profiles, pidx,
                    locals, failure, count, history, sends, navigated >>

Next ==
    \/ Launch \/ LoginGoto \/ LoginFillUser \/ LoginFillPass \/ LoginSubmit
    \/ LoginSettle \/ LoginDelay \/ LoginCheck
    \/ KeywordCheck \/ SearchGoto \/ SearchSettle \/ SearchDelay \/ Extract
    \/ ProfileCheck \/ PreDelay \/ ProfileGoto \/ ProfileSettle \/ ProfileDelay
    \/ LocateButton \/ Compose \/ ClickButton \/ ComposeDelay \/ FindBox
    \/ ClickBox \/ FillBox \/ FillDelay \/ FindSend \/ Send \/ SendDelay
    \/ AppendSent \/ TrailingDelay \/ Close \/ Return

Spec == Init /\ [][Next]_vars

\* ================================================================ claims
\* positions inside one iteration of the profile loop, up to the record
InProfile ==
    { "pre_delay", "profile_goto", "profile_settle", "profile_delay",
      "locate_button", "compose", "click_button", "compose_delay", "find_box",
      "click_box", "fill_box", "fill_delay", "find_send", "send", "send_delay",
      "record_sent" }

\* number of outcome records of the run
Recorded ==
    Len(results.would_send) + Len(results.sent)
        + Len(results.skipped) + Len(results.errors)

\* the urls recorded in an outcome list
UrlsOf(list) == { list[i].url : i \in DOMAIN list }

\* ---------------------------------------------------------------- C1
\* C1: totalSent never exceeds max_messages, and from a state in which
\* totalSent has reached max_messages no step enters a profile, navigates to
\* a profile or navigates to a keyword search.
C1_QuotaBoundsRun ==
    /\ [](results.totalSent <= cfg.max_messages)
    /\ [][results.totalSent >= cfg.max_messages => count' = count]_vars

\* the quota of 2 was met with a keyword still to be searched
C1_Witness ==
    /\ pc = "close"
    /\ cfg.max_messages = 2
    /\ results.totalSent = 2
    /\ kwi <= Len(cfg.keywords)

\* ---------------------------------------------------------------- C2
\* C2: in a dry run sent is empty, in a real run would_send is empty.
C2_ListsMatchMode ==
    /\ cfg.dry_run => results.sent = <<>>
    /\ ~cfg.dry_run => results.would_send = <<>>

\* a real run that has sent a message
C2_Witness ==
    /\ ~cfg.dry_run
    /\ results.sent # <<>>

\* ---------------------------------------------------------------- C3
\* C3: in a dry run, the step taken with the message button located records
\* the profile in would_send, whatever its name and title.
C3_DryRunRecordsLocated ==
    [][(cfg.dry_run /\ pc = "compose")
         => /\ Len(results'.would_send) = Len(results.would_send) + 1
            /\ results'.would_send[Len(results'.would_send)].url = profile.url]_vars

\* ---------------------------------------------------------------- C4
\* C4: in a dry run, after login, no step clicks the message button, clicks
\* or fills the text surface, clicks a send control or presses the shortcut;
\* the driver operations are navigations, settle waits and queries (and the
\* closing of the browser).
C4_DryRunTouchesNothing ==
    (cfg.dry_run /\ logged_in) =>
        /\ last.name \notin { "click_msg_btn", "click_msg_box", "fill_msg_box",
                              "click_send_btn", "press_control_enter" }
        /\ last.kind = "op" =>
             last.name \in { "goto_search", "goto_profile", "settle",
                             "query_selector_all", "query_selector", "close" }
        /\ pc \notin { "click_button", "compose_delay", "find_box", "click_box",
                       "fill_box", "fill_delay", "find_send", "send",
                       "send_delay", "record_sent" }

\* a dry run returned with a profile recorded in would_send
C4_Witness ==
    /\ cfg.dry_run
    /\ pc = "returned"
    /\ results.would_send # <<>>

\* ---------------------------------------------------------------- C5
\* C5: a profile that entered processing is recorded exactly once before the
\* next one is entered: inside an iteration the lists hold one record less
\* than the profiles entered, everywhere else they hold as many.
C5_OneRecordPerProfile ==
    IF pc \in InProfile
    THEN Recorded = count.entered - 1
    ELSE Recorded = count.entered

\* between two profiles, the first of which failed in the driver
C5_Witness ==
    /\ pc = "profile_check"
    /\ pidx = 2
    /\ Len(profiles) = 2
    /\ results.errors # <<>>
    /\ Recorded = 1

\* ---------------------------------------------------------------- C6
\* C6 as stated: the urls of sent, skipped, errors and would_send are pairwise
\* disjoint, also when a url is extracted more than once.
C6_UrlsDisjoint ==
    /\ UrlsOf(results.sent) \cap UrlsOf(results.skipped) = {}
    /\ UrlsOf(results.sent) \cap UrlsOf(results.errors) = {}
    /\ UrlsOf(results.sent) \cap UrlsOf(results.would_send) = {}
    /\ UrlsOf(results.skipped) \cap UrlsOf(results.errors) = {}
    /\ UrlsOf(results.skipped) \cap UrlsOf(results.would_send) = {}
    /\ UrlsOf(results.errors) \cap UrlsOf(results.would_send) = {}

\* C6 amended: as long as no url was extracted more than once in the run, the
\* urls of the four lists are pairwise disjoint.
C6_UrlsDisjointUnlessRepeated ==
    ~urlRepeated =>
        /\ UrlsOf(results.sent) \cap UrlsOf(results.skipped) = {}
        /\ UrlsOf(results.sent) \cap UrlsOf(results.errors) = {}
        /\ UrlsOf(results.sent) \cap UrlsOf(results.would_send) = {}
        /\ UrlsOf(results.skipped) \cap UrlsOf(results.errors) = {}
        /\ UrlsOf(results.skipped) \cap UrlsOf(results.would_send) = {}
        /\ UrlsOf(results.errors) \cap UrlsOf(results.would_send) = {}

\* two profiles of different urls, one skipped and one sent
C6_Witness ==
    /\ ~urlRepeated
    /\ Len(results.skipped) = 1
    /\ Len(results.sent) = 1

\* ---------------------------------------------------------------- C7
\* C7: when the location after the login submission contains neither "feed"
\* nor "mynetwork", the run has raised once the check is done, with no search
\* navigation issued, no profile entered, the four lists empty, totalSent 0.
C7_FailedLoginAborts ==
    ( /\ pc \notin { "start", "login_goto", "login_fill_user", "login_fill_pass",
                     "login_submit", "login_settle", "login_delay", "login_check" }
      /\ ~Contains(page_url, <<"f", "e", "e", "d">>)
      /\ ~Contains(page_url, <<"m", "y", "n", "e", "t", "w", "o", "r", "k">>) )
    => /\ pc = "raised"
       /\ response = NoResponse
       /\ results = EmptyResults
       /\ count.search_nav = 0
       /\ count.entered = 0

\* the login landed on the checkpoint page and the run raised the login failure
C7_Witness ==
    /\ pc = "raised"
    /\ failure = LoginFailedText
    /\ page_url = <<"/", "c", "h", "e", "c", "k", "p", "o", "i", "n", "t">>

\* ---------------------------------------------------------------- C8
\* C8: a run ends in a run-level failure only through the failed login check;
\* once logged in, no driver failure makes the run raise.
C8_OnlyLoginCheckRaises ==
    pc = "raised" => ~logged_in

\* ---------------------------------------------------------------- C9
\* C9: a driver operation that fails inside a profile's processing appends
\* that profile to errors and changes nothing else of results; the run then
\* performs line 218 and moves to the next profile, which is entered unless
\* the listing is exhausted or the quota is met, and the next keyword is
\* searched unless the keywords are exhausted or the quota is met.
C9_DriverFailureIsRecorded ==
    /\ [][(pc \in InProfile /\ last'.kind = "op" /\ ~last'.ok)
            => /\ results' = [results EXCEPT !.errors =
                    Append(@, [name |-> profile.name, title |-> profile.title,
                               url |-> profile.url, error |-> DriverErrorText])]
               /\ pc' = "trailing_delay"
               /\ pidx' = pidx /\ profiles' = profiles]_vars
    /\ [][pc = "trailing_delay"
            => /\ pc' = "profile_check" /\ pidx' = pidx + 1
               /\ results' = results /\ profiles' = profiles]_vars
    /\ [][(pc = "profile_check" /\ pidx <= Len(profiles)
             /\ results.totalSent < cfg.max_messages) => pc' = "pre_delay"]_vars
    /\ [][(pc = "keyword_check" /\ kwi <= Len(cfg.keywords)
             /\ results.totalSent < cfg.max_messages) => pc' = "search_goto"]_vars

\* the second profile of a listing is entered after the first failed
C9_Witness ==
    /\ pc = "pre_delay"
    /\ pidx = 2
    /\ Len(results.errors) = 1
    /\ results.errors[1].error = DriverErrorText
    /\ results.errors[1].url = profiles[1].url

\* --------------------------------------------------------------- C10
\* C10: when the profile loop comes back to its head after a profile, the
\* step before was the trailing delay with bounds [delay_min+2, delay_max+3].
C10_TrailingDelayAlways ==
    (pc = "profile_check" /\ pidx > 1)
    => /\ last.kind = "delay"
       /\ last.name = "inter_profile"
       /\ last.lo = (cfg.delay_min + 2) * 10
       /\ last.hi = (cfg.delay_max + 3) * 10

\* --------------------------------------------------------------- C11
\* C11 as stated: the delays after the profile navigation, after the click on
\* the message button, after the fill and after the send are drawn from
\* [delay_min, delay_max], the delay between profiles from
\* [delay_min+2, delay_max+3].
C11_DelaysFollowRequest ==
    last.kind = "delay" =>
        /\ last.name \in {"navigated", "clicked", "filled", "sent"}
             => /\ cfg.delay_min * 10 <= last.val
                /\ last.val <= cfg.delay_max * 10
        /\ last.name = "inter_profile"
             => /\ (cfg.delay_min + 2) * 10 <= last.val
                /\ last.val <= (cfg.delay_max + 3) * 10

\* C11 amended: the delay before a profile's navigation is drawn from
\* [delay_min, delay_max] and the delay between profiles from
\* [delay_min+2, delay_max+3]; the delays after the profile navigation, after
\* the click on the message button, after the fill and after the send are
\* drawn from the fixed ranges [2, 3], [1, 2], [0.8, 1.5] and [1, 2] seconds.
C11_DelayRanges ==
    last.kind = "delay" =>
        /\ last.name = "inter_action"
             => /\ cfg.delay_min * 10 <= last.val
                /\ last.val <= cfg.delay_max * 10
        /\ last.name = "inter_profile"
             => /\ (cfg.delay_min + 2) * 10 <= last.val
                /\ last.val <= (cfg.delay_max + 3) * 10
        /\ last.name = "navigated" => (20 <= last.val /\ last.val <= 30)
        /\ last.name = "clicked" => (10 <= last.val /\ last.val <= 20)
        /\ last.name = "filled" => (8 <= last.val /\ last.val <= 15)
        /\ last.name = "sent" => (10 <= last.val /\ last.val <= 20)

\* a delay between profiles was performed with delay_min below delay_max
C11_Witness ==
    /\ last.kind = "delay"
    /\ last.name = "inter_profile"
    /\ cfg.delay_min < cfg.delay_max
    /\ pidx = 2

\* --------------------------------------------------------------- C12
\* C12: when the run has returned or raised, the browser it launched has been
\* closed by browser.close().
C12_BrowserClosedAtEnd ==
    (pc \in {"returned", "raised"} /\ browser # "none") => browser = "closed"

\* --------------------------------------------------------------- C19
\* C19: every profile of the list extracted from a listing has a non-empty
\* name.
C19_NamesNonEmpty ==
    \A i \in DOMAIN profiles : profiles[i].name # <<>>

\* ---------------------------------------------------------------- C13
\* C13: when every selector of btn_selectors answers None for a profile, that
\* step appends the profile exactly once to skipped with the reason
\* "Botao mensagem nao encontrado (nao e conexao)", leaves totalSent, sent,
\* would_send and errors as they were, and leaves the iteration for the next
\* profile with nothing but the queries performed: no click, fill or send.
C13_NoButtonSkips ==
    [][ ( /\ pc = "locate_button"
          /\ last'.answers = [i \in 1..NumBtnSelectors |-> "none"] )
        => /\ results'.skipped =
                Append(results.skipped,
                       [name |-> profile.name, title |-> profile.title,
                        url |-> profile.url,
                        reason |-> "Botao mensagem nao encontrado (nao e conexao)"])
           /\ results'.totalSent = results.totalSent
           /\ results'.sent = results.sent
           /\ results'.would_send = results.would_send
           /\ results'.errors = results.errors
           /\ last'.name = "query_selector"
           /\ last'.queried = NumBtnSelectors
           /\ pc' = "profile_check"
           /\ pidx' = pidx + 1 ]_vars

\* the second profile of the run was skipped for lack of a message button
C13_Witness ==
    /\ pc = "profile_check"
    /\ pidx = 3
    /\ last.name = "query_selector"
    /\ last.answers = [i \in 1..NumBtnSelectors |-> "none"]
    /\ Len(results.skipped) = 1
    /\ results.skipped[1].reason = NotConnectionReason
    /\ results.skipped[1].url = profiles[2].url
    /\ Recorded = 2

\* ---------------------------------------------------------------- C15
\* C15: the message button of a profile is the element of the lowest-indexed
\* selector of btn_selectors that resolves: the selectors are queried in list
\* order, no selector is queried after the first that resolves, and the
\* element of a later selector is used only if every earlier one answered
\* None.
\* (pc = "compose" is the state right after the loop found a button; last is
\* then the run of queries of that loop)
C15_FirstResolvingSelectorWins ==
    pc = "compose"
        => /\ last.name = "query_selector"
           /\ msg_btn \in 1..NumBtnSelectors
           /\ last.answers[msg_btn] = "elem"
           /\ \A i \in 1..(msg_btn - 1) : last.answers[i] = "none"
           /\ last.queried = msg_btn

\* the button of the third selector is in use on a page where the first two
\* selectors match nothing
C15_Witness ==
    /\ pc = "compose"
    /\ msg_btn = NumBtnSelectors
    /\ last.answers = [i \in 1..NumBtnSelectors |->
                          IF i = NumBtnSelectors THEN "elem" ELSE "none"]

C17_TextFieldFallback ==
    [][ pc = "find_box"
        => /\ ~cfg.dry_run
           /\ last'.name = "query_selector"
           /\ last'.queried = 2 => last'.answers[1] = "none"
           /\ last'.answers = <<"none", "none">>
                => /\ results' =
                        [results EXCEPT !.skipped =
                            Append(@, [name |-> profile.name, title |-> profile.title,
                                       url |-> profile.url,
                                       reason |-> "Campo de texto nao encontrado"])]
                   /\ pc' = "profile_check"
                   /\ pidx' = pidx + 1
                   /\ sends' = sends /\ sends.issued = 0 ]_vars

\* a profile of a real run was skipped for lack of a text field
C17_Witness ==
    /\ ~cfg.dry_run
    /\ pc = "profile_check"
    /\ last.name = "query_selector"
    /\ last.answers = <<"none", "none">>
    /\ Len(results.skipped) = 1
    /\ results.skipped[1].reason = NoTextFieldReason
    /\ results.skipped[1].url = profiles[pidx - 1].url

\* ---------------------------------------------------------------- C18
\* C18: in every state of the run totalSent = len(sent) + len(would_send),
\* and in the returned result summary.totalSent is that sum,
\* summary.totalSkipped = len(skipped) and summary.totalErrors = len(errors),
\* the lists being those of the run.
C18_TotalsAgree ==
    /\ results.totalSent = Len(results.sent) + Len(results.would_send)
    /\ pc = "returned"
        => /\ response.sent = results.sent
           /\ response.would_send = results.would_send
           /\ response.skipped = results.skipped
           /\ response.errors = results.errors
           /\ response.summary.totalSent
                = Len(response.sent) + Len(response.would_send)
           /\ response.summary.totalSkipped = Len(response.skipped)
           /\ response.summary.totalErrors = Len(response.errors)

\* a run returned with one message counted, one profile skipped and no error
C18_Witness ==
    /\ pc = "returned"
    /\ response.summary.totalSent = 1
    /\ response.summary.totalSkipped = 1
    /\ response.summary.totalErrors = 0
    /\ Len(results.skipped) = 1

\* ---------------------------------------------------------------- C20
\* C20: in a real run, outside the two steps that lie between a completed
\* send action and its record (the delay of line 211 and the append of line
\* 212), hence at every point between profiles, the number of send actions
\* that completed without failure is len(sent); so a profile that went to
\* skipped or errors had no send action complete. No iteration of the profile
\* loop issues more than one send action.
C20_SendsMatchSent ==
    ~cfg.dry_run
        => /\ sends.issued <= 1
           /\ pc \notin {"send_delay", "record_sent"}
                => sends.ok = Len(results.sent)
           /\ pc \in {"send_delay", "record_sent"}
                => (sends.issued = 1 /\ sends.ok = Len(results.sent) + 1)

\* after one message sent, the send action of the next profile failed and the
\* profile went to errors
C20_Witness ==
    /\ ~cfg.dry_run
    /\ pc = "trailing_delay"
    /\ last.name \in {"click_send_btn", "press_control_enter"}
    /\ ~last.ok
    /\ sends = [issued |-> 1, ok |-> 1]
    /\ Len(results.sent) = 1
    /\ Len(results.errors) = 1
    /\ results.errors[1].url = profile.url

\* ---------------------------------------------------------------- C14
\* the candidates of a list of profiles: those with a name (the Profile of the
\* specification has a non-empty name)
HasName(p) == p.name # <<>>
ValidCandidates(list) == SelectSeq(list, HasName)

\* C14: a dry run that returned, in which no candidate was skipped for lack
\* of a message button and none met a driver failure, has in would_send the
\* first min(max_messages, N) of the N candidates extracted, in extraction
\* order, has sent empty, and navigated to those candidates and to no later
\* one.
C14_DryRunTakesFirstCandidates ==
    ( /\ pc = "returned"
      /\ cfg.dry_run
      /\ \A i \in DOMAIN results.skipped : ~HasName(results.skipped[i])
      /\ \A i \in DOMAIN results.errors : ~HasName(results.errors[i]) )
    => LET V == ValidCandidates(extracted)
           n == IF cfg.max_messages < Len(V) THEN cfg.max_messages ELSE Len(V)
       IN  /\ Len(response.would_send) = n
           /\ \A i \in 1..n :
                /\ response.would_send[i].name = V[i].name
                /\ response.would_send[i].title = V[i].title
                /\ response.would_send[i].url = V[i].url
           /\ response.sent = <<>>
           /\ ValidCandidates(navigated) = SubSeq(V, 1, n)

\* a dry run with max_messages = 1 returned after two candidates were
\* extracted: the first is in would_send, the second was never navigated to
C14_Witness ==
    /\ pc = "returned"
    /\ cfg.dry_run
    /\ cfg.max_messages = 1
    /\ Len(ValidCandidates(extracted)) = 2
    /\ Len(response.would_send) = 1
    /\ response.would_send[1].url = extracted[1].url
    /\ navigated = << extracted[1] >>
    /\ results.skipped = <<>>
    /\ results.errors = <<>>

====
